---- MODULE Spec2Model ----
(***************************************************************************)
(* UniVerify (src/server.js): a certificate registry kept in one JSON      *)
(* file (data/certificates.json) and a directory of uploaded files         *)
(* (uploads/).  Two request handlers: POST /api/university/upload          *)
(* (register) and POST /api/verify (verify).                               *)
(*                                                                         *)
(* A handler runs without interruption between two awaits, so every action *)
(* below is one such run: the code from the start of the handler (or from  *)
(* the resumption of an await) to the next filesystem call, together with  *)
(* the effect of that call.  Strings are sequences of characters, buffers  *)
(* are sequences of bytes.                                                 *)
(***************************************************************************)
EXTENDS Integers, Sequences, FiniteSets, TLC

\* ------------------------------------------------------------------ bounds
MaxTokenLen == 2    \* longest submitted token
MaxBytes == 1       \* longest uploaded buffer
MaxByte == 1        \* bytes are 0..MaxByte
DigestMod == 2      \* number of distinct digests
MaxIds == 2         \* register requests that reach the id generation
MaxClock == 1       \* last clock value
MaxInFlight == 2    \* requests in flight at once (Spec)

\* --------------------------------------------------------------- variables
VARIABLES
  ADMIN_TOKEN,   \* process.env.ADMIN_TOKEN
  dbFile,        \* data/certificates.json
  uploads,       \* uploads/ : file name -> bytes
  reqs,          \* the frames of the handlers in flight
  nextId,        \* source of the fresh ids of crypto.randomBytes
  now,           \* the clock read by new Date()
  lastDone,      \* history: the request that completed last, its response
  written,       \* history: digests of the records written by writeDb
  vin            \* the request under study (ValSpec), else NoReq

vars == <<ADMIN_TOKEN, dbFile, uploads, reqs, nextId, now, lastDone, written, vin>>

\* ----------------------------------------------------------------- strings
Absent == <<"undefined">>          \* a form field / variable that is not set
EmptyStr == <<>>
PDF == "application/pdf"

StringsUpTo(alphabet, n) == UNION {[1..k -> alphabet] : k \in 0..n}

IsSpace(c) == c = " "

RECURSIVE TrimStart(_)
TrimStart(s) ==
  IF s # <<>> /\ IsSpace(Head(s)) THEN TrimStart(Tail(s)) ELSE s

RECURSIVE TrimEnd(_)
TrimEnd(s) ==
  IF s # <<>> /\ IsSpace(s[Len(s)]) THEN TrimEnd(SubSeq(s, 1, Len(s) - 1)) ELSE s

\* String.prototype.trim
Trim(s) == TrimEnd(TrimStart(s))

\* a field taken as sent, without the trim
FieldOfNoTrim(v) == IF v = Absent \/ v = EmptyStr THEN EmptyStr ELSE v

\* (req.body.x || "").toString().trim()
FieldOf(v) == Trim(IF v = Absent \/ v = EmptyStr THEN EmptyStr ELSE v)

\* ------------------------------------------------------------------ inputs
TokenInputs == StringsUpTo({" ", "s"}, MaxTokenLen) \cup {Absent, <<"x">>}
SecretValues == {Absent, EmptyStr, <<"s">>, <<" ", "s">>}
FieldInputs == {Absent, EmptyStr, <<" ">>, <<"a">>, <<" ", "b", " ">>}
MimeInputs == {PDF, "image/png"}
Buffers == StringsUpTo(0..MaxByte, MaxBytes)

NoUpload == [present |-> FALSE]                     \* req.file undefined
FileInputs ==
  {NoUpload} \cup {[present |-> TRUE, buffer |-> b, mimetype |-> m] :
                     b \in Buffers, m \in MimeInputs}
BodyInputs ==
  [token : TokenInputs, studentName : FieldInputs, degree : FieldInputs,
   issueDate : FieldInputs]

\* ------------------------------------------------------------------ digest
\* md5Buffer: a deterministic map of the bytes to a fixed-size digest; the
\* digest space is finite, so different buffers may share a digest.
RECURSIVE md5Buffer(_)
md5Buffer(buf) ==
  IF buf = <<>> THEN 0
  ELSE (md5Buffer(SubSeq(buf, 1, Len(buf) - 1)) * 2 + buf[Len(buf)] + 1) % DigestMod

\* ------------------------------------------------------------- the db file
NoFile == [exists |-> FALSE]
File(text) == [exists |-> TRUE, text |-> text]

\* JSON.stringify(db, null, 2)
JSONstringify(db) == <<"{certificates:", db.certificates, "}">>

\* JSON.parse(raw): throws on text that is not JSON.  The documents told
\* apart: the one writeDb writes, an object whose certificates is a number,
\* an object without certificates, and null.  `holds` is the kind of value
\* the certificates property has.
JSONparse(text) ==
  IF Len(text) = 3 /\ text[1] = "{certificates:" /\ text[3] = "}"
  THEN [ok |-> TRUE,
        value |-> [kind |-> "object", holds |-> "array", certificates |-> text[2]]]
  ELSE IF text = <<"{certificates:5}">>
  THEN [ok |-> TRUE,
        value |-> [kind |-> "object", holds |-> "number", certificates |-> 5]]
  ELSE IF text = <<"{}">>
  THEN [ok |-> TRUE, value |-> [kind |-> "object", holds |-> "undefined"]]
  ELSE IF text = <<"null">>
  THEN [ok |-> TRUE, value |-> [kind |-> "null"]]
  ELSE [ok |-> FALSE]

\* { certificates: [] }
EmptyDb == [certificates |-> <<>>, holds |-> "array"]

\* a readDb that always takes the recovery branch
readDbEmpty(file) == EmptyDb

\* readDb applied to the content fs.readFile found (NoFile: readFile threw):
\* the catch covers the throw of readFile, of JSON.parse and of the property
\* read on null; `|| []` covers a certificates that is not set
readDb(file) ==
  IF ~file.exists THEN EmptyDb
  ELSE LET p == JSONparse(file.text) IN
       IF ~p.ok THEN EmptyDb
       ELSE IF p.value.kind = "null" THEN EmptyDb
       ELSE IF p.value.holds = "undefined" THEN EmptyDb
       ELSE [certificates |-> p.value.certificates, holds |-> p.value.holds]

\* a comparison that never matches, and one that always does
MatchesNone(certs, md5) == {}
MatchesAll(certs, md5) == 1..Len(certs)

\* db.certificates.find(c => c.md5 === md5): positions of the matches
Matches(certs, md5) == {i \in 1..Len(certs) : certs[i].md5 = md5}
Min(S) == CHOOSE x \in S : \A y \in S : x <= y

\* a find that returns the oldest record
findLast(certs, md5) == certs[Len(certs)]

\* the first match, in the order of the array
find(certs, md5) == certs[Min(Matches(certs, md5))]

\* `${id}.pdf`
FileName(id) == <<id, ".pdf">>

\* --------------------------------------------------------------- responses
Res(status, body) == [status |-> status, body |-> body]
R401 == Res(401, [ok |-> FALSE, message |-> "Unauthorized (token)"])
R400file == Res(400, [ok |-> FALSE, message |-> "PDF file is required"])
R400mime == Res(400, [ok |-> FALSE, message |-> "Only PDF is allowed"])
R400fields == Res(400, [ok |-> FALSE, message |-> "Missing fields"])

\* the errors a handler catches: the rejection of an fs call, which names the
\* error code, the system call and the path, and the TypeError of calling
\* find on a value that has no such method
FsCodes == {"EACCES", "ENOSPC"}
FsError(code, syscall, path) ==
  [name |-> "Error", message |-> <<code, ": ", syscall, " '", path, "'">>]
TypeErrorFind ==
  [name |-> "TypeError", message |-> <<"db.certificates.find is not a function">>]
\* String(e)
String(e) == <<e.name, ": ">> \o e.message
\* res.status(500).json({ ok: false, message: "Server error", error: String(e) })
R500(e) == Res(500, [ok |-> FALSE, message |-> "Server error", error |-> String(e)])

\* ---------------------------------------------------- frames and histories
NoDone == [kind |-> "none"]
NoReq == [kind |-> "none"]
NoFields == [studentName |-> EmptyStr, degree |-> EmptyStr, issueDate |-> EmptyStr]
Done(kind, buffer, supplied, res) ==
  [kind |-> kind, buffer |-> buffer, supplied |-> supplied, res |-> res]

\* ------------------------------------------------------------- validation
\* !req.file || !req.file.buffer: multer's memory storage gives every
\* uploaded file a Buffer, and a Buffer is truthy whatever its length.
NoFileGiven(file) == ~file.present

\* the checks with the file looked at before the token
ValidateUploadFileFirst(adminToken, file, body) ==
  LET token == FieldOf(body.token)
      studentName == FieldOf(body.studentName)
      degree == FieldOf(body.degree)
      issueDate == FieldOf(body.issueDate)
  IN  IF NoFileGiven(file) THEN [pass |-> FALSE, res |-> R400file]
      ELSE IF token = EmptyStr \/ token # adminToken THEN [pass |-> FALSE, res |-> R401]
      ELSE IF file.mimetype # PDF THEN [pass |-> FALSE, res |-> R400mime]
      ELSE IF studentName = EmptyStr \/ degree = EmptyStr \/ issueDate = EmptyStr
           THEN [pass |-> FALSE, res |-> R400fields]
      ELSE [pass |-> TRUE, studentName |-> studentName, degree |-> degree,
            issueDate |-> issueDate]

\* the checks with the text fields looked at before the MIME type
ValidateUploadFieldsFirst(adminToken, file, body) ==
  LET token == FieldOf(body.token)
      studentName == FieldOf(body.studentName)
      degree == FieldOf(body.degree)
      issueDate == FieldOf(body.issueDate)
  IN  IF token = EmptyStr \/ token # adminToken THEN [pass |-> FALSE, res |-> R401]
      ELSE IF NoFileGiven(file) THEN [pass |-> FALSE, res |-> R400file]
      ELSE IF studentName = EmptyStr \/ degree = EmptyStr \/ issueDate = EmptyStr
           THEN [pass |-> FALSE, res |-> R400fields]
      ELSE IF file.mimetype # PDF THEN [pass |-> FALSE, res |-> R400mime]
      ELSE [pass |-> TRUE, studentName |-> studentName, degree |-> degree,
            issueDate |-> issueDate]

\* the checks with degree left out of the metadata validation
ValidateUploadNoDegree(adminToken, file, body) ==
  LET token == FieldOf(body.token)
      studentName == FieldOf(body.studentName)
      degree == FieldOf(body.degree)
      issueDate == FieldOf(body.issueDate)
  IN  IF token = EmptyStr \/ token # adminToken THEN [pass |-> FALSE, res |-> R401]
      ELSE IF NoFileGiven(file) THEN [pass |-> FALSE, res |-> R400file]
      ELSE IF file.mimetype # PDF THEN [pass |-> FALSE, res |-> R400mime]
      ELSE IF studentName = EmptyStr \/ issueDate = EmptyStr
           THEN [pass |-> FALSE, res |-> R400fields]
      ELSE [pass |-> TRUE, studentName |-> studentName, degree |-> degree,
            issueDate |-> issueDate]

\* server.js 81-105: the checks of the upload handler, in the code's order
ValidateUpload(adminToken, file, body) ==
  LET token == FieldOf(body.token)
      studentName == FieldOf(body.studentName)
      degree == FieldOf(body.degree)
      issueDate == FieldOf(body.issueDate)
  IN  IF token = EmptyStr \/ token # adminToken THEN [pass |-> FALSE, res |-> R401]
      ELSE IF NoFileGiven(file) THEN [pass |-> FALSE, res |-> R400file]
      ELSE IF file.mimetype # PDF THEN [pass |-> FALSE, res |-> R400mime]
      ELSE IF studentName = EmptyStr \/ degree = EmptyStr \/ issueDate = EmptyStr
           THEN [pass |-> FALSE, res |-> R400fields]
      ELSE [pass |-> TRUE, studentName |-> studentName, degree |-> degree,
            issueDate |-> issueDate]

\* server.js 163-169: the checks of the verify handler
ValidateVerify(file) ==
  IF NoFileGiven(file) THEN [pass |-> FALSE, res |-> R400file]
  ELSE IF file.mimetype # PDF THEN [pass |-> FALSE, res |-> R400mime]
  ELSE [pass |-> TRUE]

\* ------------------------------------------------- POST /api/university/upload
\* server.js 80-115: validation, digest, id, up to the first filesystem call
UploadStart(file, body) ==
  /\ LET v == ValidateUpload(ADMIN_TOKEN, file, body) IN
     IF ~v.pass
     THEN /\ lastDone' = Done("upload", <<>>, NoFields, v.res)
          /\ UNCHANGED <<reqs, nextId>>
     ELSE /\ nextId <= MaxIds
          /\ reqs' = reqs \cup
               {[pc |-> "writeBlob", kind |-> "upload",
                 buffer |-> file.buffer, md5 |-> md5Buffer(file.buffer),
                 id |-> nextId, filename |-> FileName(nextId),
                 studentName |-> v.studentName, degree |-> v.degree,
                 issueDate |-> v.issueDate,
                 supplied |-> [studentName |-> body.studentName,
                               degree |-> body.degree,
                               issueDate |-> body.issueDate],
                 raw |-> NoFile, db |-> [certificates |-> <<>>]]}
          /\ nextId' = nextId + 1
          /\ UNCHANGED lastDone
  /\ UNCHANGED <<ADMIN_TOKEN, dbFile, uploads, now, written, vin>>

\* a handler that goes on to the store without writing the upload
UploadWriteBlobSkip(f) ==
  /\ f.kind = "upload"
  /\ f.pc = "writeBlob"
  /\ reqs' = (reqs \ {f}) \cup {[f EXCEPT !.pc = "readDb"]}
  /\ UNCHANGED <<ADMIN_TOKEN, dbFile, uploads, nextId, now, lastDone, written, vin>>

\* server.js 115-116: fs.mkdir(UPLOADS_DIR), fs.writeFile(uploads/<id>.pdf)
UploadWriteBlob(f) ==
  /\ f.kind = "upload"
  /\ f.pc = "writeBlob"
  /\ uploads' = (f.filename :> f.buffer) @@ uploads
  /\ reqs' = (reqs \ {f}) \cup {[f EXCEPT !.pc = "readDb"]}
  /\ UNCHANGED <<ADMIN_TOKEN, dbFile, nextId, now, lastDone, written, vin>>

\* server.js 119, 25: fs.readFile(DATA_FILE) of readDb
UploadReadFile(f) ==
  /\ f.kind = "upload"
  /\ f.pc = "readDb"
  /\ reqs' = (reqs \ {f}) \cup {[f EXCEPT !.raw = dbFile, !.pc = "check"]}
  /\ UNCHANGED <<ADMIN_TOKEN, dbFile, uploads, nextId, now, lastDone, written, vin>>

\* a handler that puts the new record at the end of the list
UploadCheckPush(f) ==
  /\ f.kind = "upload"
  /\ f.pc = "check"
  /\ LET db == readDb(f.raw) IN
     IF db.holds # "array"
     THEN /\ lastDone' = Done("upload", f.buffer, f.supplied, R500(TypeErrorFind))
          /\ reqs' = reqs \ {f}
          /\ UNCHANGED now
     ELSE IF Matches(db.certificates, f.md5) # {}
     THEN /\ lastDone' = Done("upload", f.buffer, f.supplied,
                 Res(200, [ok |-> TRUE,
                           message |-> "Certificate already exists with the same MD5",
                           md5 |-> f.md5,
                           certificate |-> find(db.certificates, f.md5)]))
          /\ reqs' = reqs \ {f}
          /\ UNCHANGED now
     ELSE \E t \in now..MaxClock :
          LET record == [id |-> f.id, md5 |-> f.md5, studentName |-> f.studentName,
                         degree |-> f.degree, issueDate |-> f.issueDate,
                         storedFile |-> f.filename, createdAt |-> t]
          IN /\ now' = t
             /\ reqs' = (reqs \ {f}) \cup
                  {[f EXCEPT !.db = [certificates |-> db.certificates \o <<record>>],
                             !.pc = "openDb"]}
             /\ UNCHANGED lastDone
  /\ UNCHANGED <<ADMIN_TOKEN, dbFile, uploads, nextId, written, vin>>

\* server.js 26-29, 122-144, 147-149: parse, duplicate check (find throws
\* when certificates is not an array), new record (new Date()
\* reads a clock that has not gone back), unshift, up to the fs.mkdir of writeDb
UploadCheck(f) ==
  /\ f.kind = "upload"
  /\ f.pc = "check"
  /\ LET db == readDb(f.raw) IN
     IF db.holds # "array"
     THEN /\ lastDone' = Done("upload", f.buffer, f.supplied, R500(TypeErrorFind))
          /\ reqs' = reqs \ {f}
          /\ UNCHANGED now
     ELSE IF Matches(db.certificates, f.md5) # {}
     THEN /\ lastDone' = Done("upload", f.buffer, f.supplied,
                 Res(200, [ok |-> TRUE,
                           message |-> "Certificate already exists with the same MD5",
                           md5 |-> f.md5,
                           certificate |-> find(db.certificates, f.md5)]))
          /\ reqs' = reqs \ {f}
          /\ UNCHANGED now
     ELSE \E t \in now..MaxClock :
          LET record == [id |-> f.id, md5 |-> f.md5, studentName |-> f.studentName,
                         degree |-> f.degree, issueDate |-> f.issueDate,
                         storedFile |-> f.filename, createdAt |-> t]
          IN /\ now' = t
             /\ reqs' = (reqs \ {f}) \cup
                  {[f EXCEPT !.db = [certificates |-> <<record>> \o db.certificates],
                             !.pc = "openDb"]}
             /\ UNCHANGED lastDone
  /\ UNCHANGED <<ADMIN_TOKEN, dbFile, uploads, nextId, written, vin>>

\* server.js 37-38: fs.writeFile opens DATA_FILE with flag 'w', which
\* truncates it, before the content is written
UploadOpenDb(f) ==
  /\ f.kind = "upload"
  /\ f.pc = "openDb"
  /\ dbFile' = File(<<>>)
  /\ reqs' = (reqs \ {f}) \cup {[f EXCEPT !.pc = "writeDb"]}
  /\ UNCHANGED <<ADMIN_TOKEN, uploads, nextId, now, lastDone, written, vin>>

\* a write that puts the new record in front of what the file holds now
UploadWriteDbMerging(f) ==
  /\ f.kind = "upload"
  /\ f.pc = "writeDb"
  /\ dbFile' = File(JSONstringify(
         [certificates |-> <<Head(f.db.certificates)>> \o readDb(dbFile).certificates]))
  /\ written' = written \cup {f.md5}
  /\ lastDone' = Done("upload", f.buffer, f.supplied,
         Res(200, [ok |-> TRUE, md5 |-> f.md5,
                   certificate |-> Head(f.db.certificates)]))
  /\ reqs' = reqs \ {f}
  /\ UNCHANGED <<ADMIN_TOKEN, uploads, nextId, now, vin>>

\* server.js 38, 146: the content of fs.writeFile, then the response
UploadWriteDb(f) ==
  /\ f.kind = "upload"
  /\ f.pc = "writeDb"
  /\ dbFile' = File(JSONstringify(f.db))
  /\ written' = written \cup {f.md5}
  /\ lastDone' = Done("upload", f.buffer, f.supplied,
         Res(200, [ok |-> TRUE, md5 |-> f.md5,
                   certificate |-> Head(f.db.certificates)]))
  /\ reqs' = reqs \ {f}
  /\ UNCHANGED <<ADMIN_TOKEN, uploads, nextId, now, vin>>

\* ------------------------------------------------------------ POST /api/verify
\* server.js 162-172: validation and digest, up to the read of readDb
VerifyStart(file) ==
  /\ LET v == ValidateVerify(file) IN
     IF ~v.pass
     THEN /\ lastDone' = Done("verify", <<>>, NoFields, v.res)
          /\ UNCHANGED reqs
     ELSE /\ reqs' = reqs \cup
               {[pc |-> "readDb", kind |-> "verify",
                 buffer |-> file.buffer, md5 |-> md5Buffer(file.buffer),
                 raw |-> NoFile]}
          /\ UNCHANGED lastDone
  /\ UNCHANGED <<ADMIN_TOKEN, dbFile, uploads, nextId, now, written, vin>>

\* a read that creates the file it does not find
VerifyReadFileCreating(f) ==
  /\ f.kind = "verify"
  /\ f.pc = "readDb"
  /\ dbFile' = IF dbFile.exists THEN dbFile ELSE File(JSONstringify(EmptyDb))
  /\ reqs' = (reqs \ {f}) \cup {[f EXCEPT !.raw = dbFile, !.pc = "check"]}
  /\ UNCHANGED <<ADMIN_TOKEN, uploads, nextId, now, lastDone, written, vin>>

\* server.js 172, 25: fs.readFile(DATA_FILE) of readDb
VerifyReadFile(f) ==
  /\ f.kind = "verify"
  /\ f.pc = "readDb"
  /\ reqs' = (reqs \ {f}) \cup {[f EXCEPT !.raw = dbFile, !.pc = "check"]}
  /\ UNCHANGED <<ADMIN_TOKEN, dbFile, uploads, nextId, now, lastDone, written, vin>>

\* a response that carries the record as it is stored
VerifyRespondWhole(f) ==
  /\ f.kind = "verify"
  /\ f.pc = "check"
  /\ LET db == readDb(f.raw) IN
     lastDone' = Done("verify", f.buffer, NoFields,
       IF db.holds # "array" THEN R500(TypeErrorFind)
       ELSE IF Matches(db.certificates, f.md5) = {}
       THEN Res(200, [ok |-> TRUE, valid |-> FALSE, md5 |-> f.md5,
                      message |-> "No match found"])
       ELSE Res(200, [ok |-> TRUE, valid |-> TRUE, md5 |-> f.md5,
                      certificate |-> find(db.certificates, f.md5)]))
  /\ reqs' = reqs \ {f}
  /\ UNCHANGED <<ADMIN_TOKEN, dbFile, uploads, nextId, now, written, vin>>

\* server.js 26-29, 174-193: parse, lookup (find throws when certificates is
\* not an array), response
VerifyRespond(f) ==
  /\ f.kind = "verify"
  /\ f.pc = "check"
  /\ LET db == readDb(f.raw) IN
     lastDone' = Done("verify", f.buffer, NoFields,
       IF db.holds # "array" THEN R500(TypeErrorFind)
       ELSE IF Matches(db.certificates, f.md5) = {}
       THEN Res(200, [ok |-> TRUE, valid |-> FALSE, md5 |-> f.md5,
                      message |-> "No match found"])
       ELSE LET found == find(db.certificates, f.md5) IN
            Res(200, [ok |-> TRUE, valid |-> TRUE, md5 |-> f.md5,
                      certificate |-> [studentName |-> found.studentName,
                                       degree |-> found.degree,
                                       issueDate |-> found.issueDate,
                                       createdAt |-> found.createdAt]]))
  /\ reqs' = reqs \ {f}
  /\ UNCHANGED <<ADMIN_TOKEN, dbFile, uploads, nextId, now, written, vin>>

\* ------------------------------------------------------- filesystem failures
DATA_FILE == "data/certificates.json"
Prefixes(buf) == {SubSeq(buf, 1, k) : k \in 0..(Len(buf) - 1)}

\* server.js 115-116, 147-149: fs.mkdir or fs.writeFile of the upload rejects;
\* the file is not there, or is there with the bytes written so far
UploadWriteBlobFails(f) ==
  /\ f.kind = "upload"
  /\ f.pc = "writeBlob"
  /\ \E code \in FsCodes :
       lastDone' = Done("upload", f.buffer, f.supplied,
                        R500(FsError(code, "open", f.filename)))
  /\ \/ UNCHANGED uploads
     \/ \E part \in Prefixes(f.buffer) : uploads' = (f.filename :> part) @@ uploads
  /\ reqs' = reqs \ {f}
  /\ UNCHANGED <<ADMIN_TOKEN, dbFile, nextId, now, written, vin>>

\* server.js 25, 29-30: fs.readFile rejects although the file is there; the
\* catch of readDb makes it the empty list
UploadReadFileFails(f) ==
  /\ f.kind = "upload"
  /\ f.pc = "readDb"
  /\ dbFile.exists
  /\ reqs' = (reqs \ {f}) \cup {[f EXCEPT !.raw = NoFile, !.pc = "check"]}
  /\ UNCHANGED <<ADMIN_TOKEN, dbFile, uploads, nextId, now, lastDone, written, vin>>

\* server.js 37-38, 147-149: fs.mkdir, or the open of fs.writeFile, rejects
UploadOpenDbFails(f) ==
  /\ f.kind = "upload"
  /\ f.pc = "openDb"
  /\ \E code \in FsCodes :
       lastDone' = Done("upload", f.buffer, f.supplied,
                        R500(FsError(code, "open", DATA_FILE)))
  /\ reqs' = reqs \ {f}
  /\ UNCHANGED <<ADMIN_TOKEN, dbFile, uploads, nextId, now, written, vin>>

\* server.js 38, 147-149: the write of fs.writeFile rejects, the file stays
\* as the open left it
UploadWriteDbFails(f) ==
  /\ f.kind = "upload"
  /\ f.pc = "writeDb"
  /\ \E code \in FsCodes :
       lastDone' = Done("upload", f.buffer, f.supplied,
                        R500(FsError(code, "write", DATA_FILE)))
  /\ reqs' = reqs \ {f}
  /\ UNCHANGED <<ADMIN_TOKEN, dbFile, uploads, nextId, now, written, vin>>

\* server.js 25, 29-30: fs.readFile rejects although the file is there
VerifyReadFileFails(f) ==
  /\ f.kind = "verify"
  /\ f.pc = "readDb"
  /\ dbFile.exists
  /\ reqs' = (reqs \ {f}) \cup {[f EXCEPT !.raw = NoFile, !.pc = "check"]}
  /\ UNCHANGED <<ADMIN_TOKEN, dbFile, uploads, nextId, now, lastDone, written, vin>>

\* the process stops while a handler waits for an fs call: the handler takes
\* no further step and sends no response
Crash(f) ==
  /\ reqs' = reqs \ {f}
  /\ UNCHANGED <<ADMIN_TOKEN, dbFile, uploads, nextId, now, lastDone, written, vin>>

\* ------------------------------------------------------------ specifications
\* the requests the running server is sent
RegTokens == {<<"s">>, <<"s", " ">>, <<"x">>}
RegBodies ==
  [token : RegTokens, studentName : {EmptyStr, <<"a">>, <<" ", "b", " ">>},
   degree : {<<" ", "c">>}, issueDate : {<<"d">>}]

Upload == \E file \in FileInputs, body \in RegBodies : UploadStart(file, body)
Verify == \E file \in FileInputs : VerifyStart(file)

Init ==
  /\ ADMIN_TOKEN = <<"s">>
  /\ dbFile = NoFile
  /\ uploads = <<>>
  /\ reqs = {}
  /\ nextId = 1
  /\ now = 0
  /\ lastDone = NoDone
  /\ written = {}
  /\ vin = NoReq

\* any interleaving of up to MaxInFlight requests
Arrive == Cardinality(reqs) < MaxInFlight /\ (Upload \/ Verify)

Next ==
  \/ Arrive
  \/ \E f \in reqs : UploadWriteBlob(f)
  \/ \E f \in reqs : UploadReadFile(f)
  \/ \E f \in reqs : UploadCheck(f)
  \/ \E f \in reqs : UploadOpenDb(f)
  \/ \E f \in reqs : UploadWriteDb(f)
  \/ \E f \in reqs : VerifyReadFile(f)
  \/ \E f \in reqs : VerifyRespond(f)

Spec == Init /\ [][Next]_vars

\* one request at a time: a request starts only when none is in flight
SeqArrive == reqs = {} /\ (Upload \/ Verify)

SeqNext ==
  \/ SeqArrive
  \/ \E f \in reqs : UploadWriteBlob(f)
  \/ \E f \in reqs : UploadReadFile(f)
  \/ \E f \in reqs : UploadCheck(f)
  \/ \E f \in reqs : UploadOpenDb(f)
  \/ \E f \in reqs : UploadWriteDb(f)
  \/ \E f \in reqs : VerifyReadFile(f)
  \/ \E f \in reqs : VerifyRespond(f)

SeqSpec == Init /\ [][SeqNext]_vars

\* one request, of any shape, sent to a server of any configuration whose
\* store is empty or holds the record of one earlier registration
SeedBuffer == <<1>>
SeedRecord ==
  [id |-> 1, md5 |-> md5Buffer(SeedBuffer), studentName |-> <<"a">>,
   degree |-> <<"c">>, issueDate |-> <<"d">>, storedFile |-> FileName(1),
   createdAt |-> 0]
EmptyStore == [db |-> NoFile, uploads |-> <<>>, nextId |-> 1, written |-> {}]
SeededStore ==
  [db |-> File(JSONstringify([certificates |-> <<SeedRecord>>])),
   uploads |-> (FileName(1) :> SeedBuffer), nextId |-> 2,
   written |-> {SeedRecord.md5}]
NoBody == [token |-> Absent, studentName |-> Absent, degree |-> Absent,
           issueDate |-> Absent]
ValRequests ==
  {[kind |-> "upload", file |-> f, body |-> b] : f \in FileInputs, b \in BodyInputs}
  \cup {[kind |-> "verify", file |-> f, body |-> NoBody] : f \in FileInputs}

ValInit ==
  /\ ADMIN_TOKEN \in SecretValues
  /\ \E st \in {EmptyStore, SeededStore} :
       /\ dbFile = st.db
       /\ uploads = st.uploads
       /\ nextId = st.nextId
       /\ written = st.written
       /\ \E r \in ValRequests :
            vin = [kind |-> r.kind, file |-> r.file, body |-> r.body,
                   pre |-> [db |-> st.db, uploads |-> st.uploads]]
  /\ reqs = {}
  /\ now = 0
  /\ lastDone = NoDone

ValArrive ==
  /\ reqs = {}
  /\ lastDone = NoDone
  /\ \/ vin.kind = "upload" /\ UploadStart(vin.file, vin.body)
     \/ vin.kind = "verify" /\ VerifyStart(vin.file)

ValNext ==
  \/ ValArrive
  \/ \E f \in reqs : UploadWriteBlob(f)
  \/ \E f \in reqs : UploadReadFile(f)
  \/ \E f \in reqs : UploadCheck(f)
  \/ \E f \in reqs : UploadOpenDb(f)
  \/ \E f \in reqs : UploadWriteDb(f)
  \/ \E f \in reqs : VerifyReadFile(f)
  \/ \E f \in reqs : VerifyRespond(f)

ValSpec == ValInit /\ [][ValNext]_vars

\* one request sent to a server whose snapshot file is missing, written by
\* writeDb, or malformed (cut short, or JSON of another shape), on a
\* filesystem whose calls may fail
MalformedTexts == {<<>>, <<"{cert">>, <<"null">>, <<"{}">>, <<"{certificates:5}">>}
MalformedStores ==
  {[db |-> File(t), uploads |-> <<>>, nextId |-> 1, written |-> {}] :
     t \in MalformedTexts}
DiskRequests ==
  {[kind |-> "upload", file |-> f, body |-> b] : f \in FileInputs, b \in RegBodies}
  \cup {[kind |-> "verify", file |-> f, body |-> NoBody] : f \in FileInputs}

DiskInit ==
  /\ ADMIN_TOKEN = <<"s">>
  /\ \E st \in {EmptyStore, SeededStore} \cup MalformedStores :
       /\ dbFile = st.db
       /\ uploads = st.uploads
       /\ nextId = st.nextId
       /\ written = st.written
       /\ \E r \in DiskRequests :
            vin = [kind |-> r.kind, file |-> r.file, body |-> r.body,
                   pre |-> [db |-> st.db, uploads |-> st.uploads]]
  /\ reqs = {}
  /\ now = 0
  /\ lastDone = NoDone

DiskNext ==
  \/ ValArrive
  \/ \E f \in reqs : UploadWriteBlob(f)
  \/ \E f \in reqs : UploadWriteBlobFails(f)
  \/ \E f \in reqs : UploadReadFile(f)
  \/ \E f \in reqs : UploadReadFileFails(f)
  \/ \E f \in reqs : UploadCheck(f)
  \/ \E f \in reqs : UploadOpenDb(f)
  \/ \E f \in reqs : UploadOpenDbFails(f)
  \/ \E f \in reqs : UploadWriteDb(f)
  \/ \E f \in reqs : UploadWriteDbFails(f)
  \/ \E f \in reqs : VerifyReadFile(f)
  \/ \E f \in reqs : VerifyReadFileFails(f)
  \/ \E f \in reqs : VerifyRespond(f)

DiskSpec == DiskInit /\ [][DiskNext]_vars

\* any interleaving of up to MaxInFlight register requests, each of which may
\* stop, or have an fs call fail, between any two of its steps
CrashArrive == Cardinality(reqs) < MaxInFlight /\ Upload

CrashNext ==
  \/ CrashArrive
  \/ \E f \in reqs : UploadWriteBlob(f)
  \/ \E f \in reqs : UploadWriteBlobFails(f)
  \/ \E f \in reqs : UploadReadFile(f)
  \/ \E f \in reqs : UploadReadFileFails(f)
  \/ \E f \in reqs : UploadCheck(f)
  \/ \E f \in reqs : UploadOpenDb(f)
  \/ \E f \in reqs : UploadOpenDbFails(f)
  \/ \E f \in reqs : UploadWriteDb(f)
  \/ \E f \in reqs : UploadWriteDbFails(f)
  \/ \E f \in reqs : Crash(f)

CrashSpec == Init /\ [][CrashNext]_vars

\* ==================================================================== claims
\* the vocabulary of the claims
Certs == readDb(dbFile).certificates                 \* the store snapshot
RegisterOk(d) == d.kind = "upload" /\ d.res.status = 200
IsDuplicate(d) == RegisterOk(d) /\ "message" \in DOMAIN d.res.body
IsCreated(d) == RegisterOk(d) /\ "message" \notin DOMAIN d.res.body
Completes == reqs # {} /\ reqs' = {}                 \* SeqSpec: the request ends
Metadata(c) ==
  [studentName |-> c.studentName, degree |-> c.degree, issueDate |-> c.issueDate]
Trimmed(m) ==
  [studentName |-> Trim(m.studentName), degree |-> Trim(m.degree),
   issueDate |-> Trim(m.issueDate)]

\* ValSpec: the request under study
Handled == reqs # {} \/ lastDone.kind # "none"
Answered == lastDone.kind # "none"
StoreUntouched == dbFile = vin.pre.db /\ uploads = vin.pre.uploads
NonBlank(v) == v # Absent /\ Trim(v) # <<>>
\* the submitted token, surrounding whitespace aside, is the non-empty secret
Presents(token, secret) == NonBlank(token) /\ Trim(token) = secret
TokenHolds == Presents(vin.body.token, ADMIN_TOKEN)
FileHolds == vin.file.present
MimeHolds == vin.file.present /\ vin.file.mimetype = PDF
FieldsHold ==
  NonBlank(vin.body.studentName) /\ NonBlank(vin.body.degree)
    /\ NonBlank(vin.body.issueDate)

\* C1: two register requests with the same bytes, run one after the other:
\* the second leaves the store as the first left it and returns the record
\* the first returned.
C1_RegisterIdempotent ==
  [][\A f \in reqs :
       (f.kind = "upload" /\ RegisterOk(lastDone) /\ lastDone.buffer = f.buffer)
         => /\ dbFile' = dbFile
            /\ Completes =>
                 /\ RegisterOk(lastDone')
                 /\ lastDone'.res.body.certificate = lastDone.res.body.certificate
                 /\ lastDone'.res.body.certificate \in
                      {Certs[i] : i \in 1..Len(Certs)}]_vars

C1_Witness ==
  /\ IsDuplicate(lastDone)
  /\ reqs = {}
  /\ uploads[lastDone.res.body.certificate.storedFile] = lastDone.buffer
  /\ Metadata(lastDone.res.body.certificate) # Trimmed(lastDone.supplied)
  /\ Len(Certs) = 1

\* C2: requests run one at a time from the empty store: no two records of
\* the snapshot have the same md5.
C2_OneRecordPerDigest ==
  \A i, j \in 1..Len(Certs) : i # j => Certs[i].md5 # Certs[j].md5

C2_Witness ==
  /\ IsDuplicate(lastDone)
  /\ lastDone.buffer # uploads[lastDone.res.body.certificate.storedFile]
  /\ Len(Certs) = 1
  /\ Cardinality(DOMAIN uploads) = 2

\* C3 as stated: a verify that follows a successful register (created or
\* already exists) of the same bytes matches and returns the metadata
\* supplied to that register (surrounding whitespace aside).
C3_RoundTripSupplied ==
  [][\A f \in reqs :
       (f.kind = "verify" /\ RegisterOk(lastDone) /\ lastDone.buffer = f.buffer
          /\ Completes)
         => /\ lastDone'.res.body.valid
            /\ Metadata(lastDone'.res.body.certificate)
                 = Trimmed(lastDone.supplied)]_vars

\* C3 amended: a verify that follows a successful register of the same bytes
\* matches and returns the metadata of the record that register returned; on
\* the created path that is the supplied metadata with surrounding
\* whitespace trimmed.
C3_RoundTripRecord ==
  [][\A f \in reqs :
       (f.kind = "verify" /\ RegisterOk(lastDone) /\ lastDone.buffer = f.buffer
          /\ Completes)
         => /\ lastDone'.res.body.valid
            /\ Metadata(lastDone'.res.body.certificate)
                 = Metadata(lastDone.res.body.certificate)
            /\ lastDone'.res.body.certificate.createdAt
                 = lastDone.res.body.certificate.createdAt
            /\ IsCreated(lastDone) =>
                 Metadata(lastDone'.res.body.certificate)
                   = Trimmed(lastDone.supplied)]_vars

\* a verify that matched right after a duplicate register whose metadata
\* differ from the record's
C3_Witness ==
  /\ lastDone.kind = "verify"
  /\ lastDone.res.status = 200
  /\ lastDone.res.body.valid
  /\ Len(Certs) = 1
  /\ Cardinality(DOMAIN uploads) = 2
  /\ lastDone.res.body.certificate.studentName = <<"b">>

\* C4: under any interleaving, a verify answers valid only if a register has
\* written a record of that digest; an answer that is not valid carries the
\* digest and no studentName, degree, issueDate or createdAt.
C4_NoFalseMatch ==
  (lastDone.kind = "verify" /\ lastDone.res.status = 200) =>
    /\ lastDone.res.body.md5 = md5Buffer(lastDone.buffer)
    /\ IF lastDone.res.body.valid
       THEN lastDone.res.body.md5 \in written
       ELSE DOMAIN lastDone.res.body = {"ok", "valid", "md5", "message"}

\* a verify matched while a register of another digest was in flight
C4_Witness ==
  /\ lastDone.kind = "verify"
  /\ lastDone.res.status = 200
  /\ lastDone.res.body.valid
  /\ \E f \in reqs : f.kind = "upload" /\ f.md5 \notin written /\ f.pc = "writeDb"

\* C5 as stated: a register whose digest is already in the store writes
\* nothing: every step it takes leaves the snapshot and the archive as they
\* were.
C5_DuplicateWritesNothing ==
  [][\A f \in reqs :
       (f.kind = "upload" /\ Matches(Certs, f.md5) # {})
         => dbFile' = dbFile /\ uploads' = uploads]_vars

\* C6: a register whose token is not the secret is answered Unauthorized
\* whatever the rest of the request is, and the store and the archive stay
\* as they were.
C6_UnauthorizedNoWrites ==
  (vin.kind = "upload" /\ ~TokenHolds) =>
    /\ reqs = {}
    /\ StoreUntouched
    /\ Answered => lastDone.res = R401

C6_Witness ==
  /\ vin.kind = "upload"
  /\ vin.body.token = <<"x">>
  /\ ADMIN_TOKEN = <<"s">>
  /\ MimeHolds /\ FieldsHold /\ vin.file.buffer # <<>>
  /\ vin.pre.db # NoFile
  /\ Answered /\ lastDone.res = R401

\* C7 as stated: a register passes the token check iff the submitted token
\* is non-empty and equal, character for character, to the secret.
C7_TokenExact ==
  (vin.kind = "upload" /\ Handled) =>
    ((reqs # {} \/ lastDone.res.status # 401)
       <=> (vin.body.token \notin {Absent, EmptyStr} /\ vin.body.token = ADMIN_TOKEN))

\* C7 amended: a register passes the token check iff the submitted token,
\* with its leading and trailing whitespace removed, is non-empty and equal,
\* character for character, to the secret.
C7_TokenTrimmed ==
  (vin.kind = "upload" /\ Handled) =>
    ((reqs # {} \/ lastDone.res.status # 401) <=> TokenHolds)

C7_Witness ==
  /\ vin.kind = "upload"
  /\ vin.body.token = <<"s", " ">>
  /\ ADMIN_TOKEN = <<"s">>
  /\ Answered /\ lastDone.res.status # 401

\* C8 as stated: a register (token in order) or a verify whose file is
\* present with zero bytes is answered MissingFile and creates no record
\* and no blob.
C8_EmptyFileRejected ==
  (/\ vin.kind \in {"upload", "verify"}
   /\ vin.kind = "upload" => TokenHolds
   /\ vin.file.present /\ vin.file.buffer = <<>>)
    => /\ reqs = {}
       /\ StoreUntouched
       /\ Answered => lastDone.res = R400file

\* C9: the outcome of a register is the failure of the first check, in the
\* order token, file, MIME type, text fields, that does not hold; the four
\* failures are told apart; the request goes on only when the four hold.
ExpectedOutcome ==
  IF ~TokenHolds THEN R401
  ELSE IF ~FileHolds THEN R400file
  ELSE IF ~MimeHolds THEN R400mime
  ELSE IF ~FieldsHold THEN R400fields
  ELSE [status |-> 200]
C9_ChecksInOrder ==
  (vin.kind = "upload" /\ Handled) =>
    /\ Cardinality({R401.body.message, R400file.body.message,
                    R400mime.body.message, R400fields.body.message}) = 4
    /\ IF reqs # {} \/ lastDone.res.status = 200
       THEN ExpectedOutcome = [status |-> 200]
       ELSE lastDone.res = ExpectedOutcome

\* the MIME type and a text field are both wrong: the MIME type is reported
C9_Witness ==
  /\ vin.kind = "upload"
  /\ TokenHolds /\ FileHolds /\ ~MimeHolds /\ ~FieldsHold
  /\ Answered /\ lastDone.res = R400mime

\* C10: a register with token, file and MIME type in order and a text field
\* blank after trimming is answered "Missing fields"; a register answered
\* with one of the three caller errors leaves the store and the archive as
\* they were.
C10_MissingFieldsNoWrites ==
  vin.kind = "upload" =>
    /\ (TokenHolds /\ MimeHolds /\ ~FieldsHold) =>
         /\ reqs = {}
         /\ Answered => lastDone.res = R400fields
    /\ (Answered /\ lastDone.res.status = 400) =>
         /\ lastDone.res \in {R400file, R400mime, R400fields}
         /\ reqs = {}
         /\ StoreUntouched

C10_Witness ==
  /\ vin.kind = "upload"
  /\ TokenHolds /\ MimeHolds
  /\ NonBlank(vin.body.studentName) /\ NonBlank(vin.body.issueDate)
  /\ vin.body.degree = <<" ">>
  /\ vin.pre.db # NoFile
  /\ Answered /\ lastDone.res = R400fields

\* C11: a verify request, whatever its outcome, leaves the snapshot file and
\* the uploads as they were before it, also when the snapshot file is
\* missing or malformed (and when its read fails).
C11_VerifyReadOnly ==
  vin.kind = "verify" =>
    /\ StoreUntouched
    /\ Answered => reqs = {}

\* a verify answered "No match found" over a snapshot file cut short
C11_Witness ==
  /\ vin.kind = "verify"
  /\ vin.pre.db = File(<<"{cert">>)
  /\ Answered
  /\ lastDone.res.status = 200
  /\ ~lastDone.res.body.valid

\* C12: under any interleaving, a verify response that matched holds exactly
\* ok, valid, md5 and a certificate of exactly studentName, degree, issueDate
\* and createdAt; no verify response has an id or a storedFile.
PublicFields == {"studentName", "degree", "issueDate", "createdAt"}
C12_NoInternalFields ==
  lastDone.kind = "verify" =>
    /\ {"id", "storedFile", "filename"} \cap DOMAIN lastDone.res.body = {}
    /\ IF lastDone.res.status = 200 /\ lastDone.res.body.valid
       THEN /\ DOMAIN lastDone.res.body = {"ok", "valid", "md5", "certificate"}
            /\ DOMAIN lastDone.res.body.certificate = PublicFields
            /\ lastDone.res.body.md5 = md5Buffer(lastDone.buffer)
       ELSE "certificate" \notin DOMAIN lastDone.res.body

\* a verify matched a stored record, which has an id and a storedFile
C12_Witness ==
  /\ lastDone.kind = "verify"
  /\ lastDone.res.status = 200
  /\ lastDone.res.body.valid
  /\ \E i \in 1..Len(Certs) :
       /\ Certs[i].md5 = lastDone.res.body.md5
       /\ {"id", "storedFile"} \subseteq DOMAIN Certs[i]
       /\ Certs[i].storedFile \in DOMAIN uploads

\* C13 as stated: a request that ends with status 500 after a filesystem
\* call failed (the snapshot read as a list, so that nothing else throws)
\* reports it generically: the body holds ok and the fixed message, and
\* nothing taken from the error that was raised.
C13_GenericInternalError ==
  (Answered /\ lastDone.res.status = 500 /\ readDb(vin.pre.db).holds = "array") =>
    /\ lastDone.res.body.message = "Server error"
    /\ DOMAIN lastDone.res.body = {"ok", "message"}

\* the records of a list
Records(certs) == {certs[i] : i \in 1..Len(certs)}
\* g is about to write a list read before the register that completed last,
\* with the same bytes and answered created, had written its record
SecondRacer(g) ==
  /\ g.kind = "upload"
  /\ g.pc = "writeDb"
  /\ IsCreated(lastDone)
  /\ lastDone.buffer = g.buffer
  /\ lastDone.res.body.certificate \notin Records(g.db.certificates)

C15_AppendOnly ==
  [][\A g \in reqs :
       (/\ g.kind = "upload" /\ g.pc = "writeDb" /\ g \notin reqs'
        /\ IsCreated(lastDone) /\ IsCreated(lastDone')
        /\ g.md5 # lastDone.res.body.md5)
         => /\ lastDone.res.body.certificate \in Records(Certs')
            /\ Len(Certs') >= 2]_vars

\* C16: register requests interleaved, each allowed to stop or to have an fs
\* call fail between any two of its steps: every record of the snapshot has
\* a storedFile that names a file of uploads holding bytes of the record's
\* digest, and every handler past its upload write has its file there with
\* its bytes.
C16_StoredFileResolves ==
  /\ \A i \in 1..Len(Certs) :
       /\ Certs[i].storedFile \in DOMAIN uploads
       /\ md5Buffer(uploads[Certs[i].storedFile]) = Certs[i].md5
       /\ Certs[i].storedFile = FileName(Certs[i].id)
  /\ \A f \in reqs :
       f.pc # "writeBlob" =>
         /\ f.filename \in DOMAIN uploads
         /\ uploads[f.filename] = f.buffer

\* a record with its blob, next to a whole blob whose register stopped
\* before any record of its digest was written
C16_Witness ==
  /\ reqs = {}
  /\ Len(Certs) = 1
  /\ IsCreated(lastDone)
  /\ uploads[Certs[1].storedFile] = lastDone.buffer
  /\ \E name \in DOMAIN uploads :
       /\ Len(uploads[name]) = MaxBytes
       /\ md5Buffer(uploads[name]) \notin written

\* C17: requests run one at a time: a register whose digest is not in the
\* store rewrites the snapshot as its new record followed by the previous
\* list in its order, one record more; every snapshot lists its records
\* newest first (ids falling, createdAt not rising).
C17_NewestFirst ==
  [][/\ \A f \in reqs :
          (f.kind = "upload" /\ f.pc = "openDb") =>
            /\ Tail(f.db.certificates) = Certs
            /\ Matches(Certs, f.md5) = {}
            /\ Head(f.db.certificates).id = f.id
     /\ \A f \in reqs :
          (f.kind = "upload" /\ f.pc = "writeDb" /\ f \notin reqs') =>
            /\ Certs' = f.db.certificates
            /\ Certs' = <<lastDone'.res.body.certificate>> \o readDb(f.raw).certificates
            /\ Len(Certs') = Len(readDb(f.raw).certificates) + 1
            /\ Metadata(Head(Certs')) = Trimmed(f.supplied)
     /\ \A i, j \in 1..Len(Certs') :
          i < j => /\ Certs'[i].id > Certs'[j].id
                   /\ Certs'[i].createdAt >= Certs'[j].createdAt]_vars

\* the second record created stands in front of the first
C17_Witness ==
  /\ reqs = {}
  /\ IsCreated(lastDone)
  /\ Len(Certs) = 2
  /\ Certs[1] = lastDone.res.body.certificate
  /\ Certs[1].id = 2 /\ Certs[2].id = 1

\* C18 as stated: the snapshot file is missing or malformed (not JSON, or
\* JSON that holds no list of records): readDb gives the empty list and
\* nothing is raised, so a verify of a PDF answers 200 with valid false and
\* a valid register takes the created path; if a 500 is answered it is for
\* an fs call that failed, never for what the file holds.
C18_SilentRecovery ==
  (/\ vin.pre.db \in {NoFile} \cup {File(t) : t \in MalformedTexts}
   /\ \/ vin.kind = "verify" /\ MimeHolds
      \/ vin.kind = "upload" /\ TokenHolds /\ MimeHolds /\ FieldsHold
   /\ Answered) =>
    /\ readDb(vin.pre.db).holds = "array"
    /\ readDb(vin.pre.db).certificates = <<>>
    /\ IF vin.kind = "verify"
       THEN lastDone.res.status = 200 /\ ~lastDone.res.body.valid
       ELSE IF lastDone.res.status = 500
       THEN lastDone.res.body.error[1] = "Error"
       ELSE IsCreated(lastDone)

====
